---- MODULE Spec2Model ----
(***************************************************************************)
(* A model of teamscale_client.TeamscaleClient: construction, URL          *)
(* formatting, the authenticated PUT, the two uploads that delegate to it  *)
(* and the JSON file reader.  Calls run in threads; each thread owns a     *)
(* frame (its arguments, locals, request, response and outcome) and all    *)
(* threads share the one client object.                                    *)
(***************************************************************************)
EXTENDS Integers, Sequences, FiniteSets, TLC

VARIABLES
    client,   \* the TeamscaleClient object, once constructed
    given,    \* the arguments the constructor was called with
    frames,   \* per thread: the call in progress
    seen      \* how the calls completed so far ended ("return", "raise")

vars == <<client, given, frames, seen>>

(***************************************************************************)
(* Bounds and input sets                                                   *)
(***************************************************************************)
NumThreads == 2

Threads == 1..NumThreads

\* Python values that may be None are tagged; plain str values are TLA+ strings.
PyS(s) == [py |-> "str", s |-> s]
PyI(i) == [py |-> "int", i |-> i]
PyNone == [py |-> "NoneType"]

ArgNames == {"url", "username", "password", "project"}

ArgValues(a) ==
    CASE a = "url" -> {PyS("http://ts.example.com"), PyNone}
      [] a = "username" -> {PyS("admin"), PyNone}
      [] a = "password" -> {PyS("secret"), PyNone}
      [] a = "project" -> {PyS("proj1"), PyNone}

\* A constructor call: the keyword arguments actually passed (an omitted
\* argument is a name outside the domain).
CtorCalls ==
    {k \in UNION {[S -> UNION {ArgValues(a) : a \in ArgNames}] : S \in SUBSET ArgNames} :
        \A a \in DOMAIN k : k[a] \in ArgValues(a)}

FindingsData ==
    <<[path |-> "src/a.c",
       findings |-> <<[findingTypeId |-> "lint-1", message |-> "unused variable",
                       assessment |-> "RED", startLine |-> 1, endLine |-> 1,
                       startOffset |-> 1, endOffset |-> 26]>>]>>

MetricsData == <<[path |-> "src/a.c", metrics |-> [loc |-> 10, complexity |-> 3]]>>

Payloads == {FindingsData, MetricsData}

Timestamps == {0, 1444000000}

Messages == {"nightly upload", ""}

Partitions == {"lint", "coverage"}

ServiceNames == {"add-external-findings", "add-external-metrics"}

PutUrls == {"http://ts.example.com/p/proj1/add-external-metrics/", "http://other.example.com/x"}

PutParameters == {"t" :> 7}

Statuses == {200, 201, 204, 401, 403, 404, 500}

Bodies == {"not found", ""}

TransportErrors == {"ConnectionError", "Timeout"}

\* The inputs of the concurrent specification.
ConcTimestamps == {0, 1444000000}

ConcStatuses == {200, 404}

ConcBodies == {"not found"}

(***************************************************************************)
(* String formatting                                                       *)
(***************************************************************************)
Digit(d) ==
    CASE d = 0 -> "0" [] d = 1 -> "1" [] d = 2 -> "2" [] d = 3 -> "3" [] d = 4 -> "4"
      [] d = 5 -> "5" [] d = 6 -> "6" [] d = 7 -> "7" [] d = 8 -> "8" [] d = 9 -> "9"

RECURSIVE IntToStr(_)
IntToStr(n) == IF n < 10 THEN Digit(n) ELSE IntToStr(n \div 10) \o Digit(n % 10)

\* str(v), as "%s" and "{}" apply it.
PyStr(v) ==
    CASE v.py = "str" -> v.s
      [] v.py = "int" -> IntToStr(v.i)
      [] v.py = "NoneType" -> "None"

RECURSIVE Directives(_, _)
Directives(tokens, d) ==
    IF tokens = <<>> THEN 0
    ELSE (IF Head(tokens) = d THEN 1 ELSE 0) + Directives(Tail(tokens), d)

RECURSIVE Substitute(_, _, _)
Substitute(tokens, d, args) ==
    IF tokens = <<>> THEN ""
    ELSE IF Head(tokens) = d
         THEN PyStr(Head(args)) \o Substitute(Tail(tokens), d, Tail(args))
         ELSE Head(tokens) \o Substitute(Tail(tokens), d, args)

\* fmt % args: the format is a sequence of literal pieces and "%s" directives;
\* a wrong number of arguments is a TypeError.
PercentFormat(tokens, args) ==
    IF Directives(tokens, "%s") # Len(args)
    THEN [ok |-> FALSE, exc |-> "TypeError"]
    ELSE [ok |-> TRUE, s |-> Substitute(tokens, "%s", args)]

\* fmt.format(*args): too few arguments is an IndexError, surplus ones are ignored.
StrFormat(tokens, args) ==
    IF Directives(tokens, "{}") > Len(args)
    THEN [ok |-> FALSE, exc |-> "IndexError"]
    ELSE [ok |-> TRUE, s |-> Substitute(tokens, "{}", args)]

(***************************************************************************)
(* The client object                                                       *)
(***************************************************************************)
HTTPBasicAuth(username, password) == [username |-> username, password |-> password]

\* Mutant: a constructor that rejects None.
__init__Validating(kwargs) ==
    IF ArgNames \ DOMAIN kwargs # {}
    THEN [state |-> "failed", exc |-> "TypeError"]
    ELSE IF \E a \in ArgNames : kwargs[a] = PyNone
    THEN [state |-> "failed", exc |-> "ValueError"]
    ELSE [state |-> "ok",
          self |-> [url |-> kwargs.url,
                    username |-> kwargs.username,
                    auth_header |-> HTTPBasicAuth(kwargs.username, kwargs.password),
                    project |-> kwargs.project]]

\* TeamscaleClient(**kwargs): binding the call to the signature fails when a
\* parameter without default is omitted; the body stores what it is given.
__init__(kwargs) ==
    IF ArgNames \ DOMAIN kwargs # {}
    THEN [state |-> "failed", exc |-> "TypeError"]
    ELSE [state |-> "ok",
          self |-> [url |-> kwargs.url,
                    username |-> kwargs.username,
                    auth_header |-> HTTPBasicAuth(kwargs.username, kwargs.password),
                    project |-> kwargs.project]]

\* Mutant: the trailing slash is forgotten.
get_project_service_url_NoSlash(self, service_name) ==
    PercentFormat(<<"%s", "/p/", "%s", "/", "%s">>,
                  <<self.url, self.project, PyS(service_name)>>)

get_project_service_url(self, service_name) ==
    PercentFormat(<<"%s", "/p/", "%s", "/", "%s", "/">>,
                  <<self.url, self.project, PyS(service_name)>>)

(***************************************************************************)
(* Frames: one per thread                                                  *)
(***************************************************************************)
Return(v) == [kind |-> "return", value |-> v]

Raise(exc, msg) == [kind |-> "raise", exc |-> exc, msg |-> msg]

IdleFrame ==
    [pc |-> "idle", method |-> "", args |-> <<>>, put_locals |-> PyNone,
     req |-> PyNone, nreq |-> 0, reply |-> PyNone, put_outcome |-> PyNone,
     outcome |-> PyNone]

Env(self, frame) == [self |-> self, frame |-> frame]

(***************************************************************************)
(* put and the uploads                                                     *)
(***************************************************************************)
\* Mutant: the client remembers the last url it was asked to PUT to.
put_request_Remembering(self, f, url, json, parameters) ==
    Env([x \in DOMAIN self \cup {"last_url"} |->
            IF x = "last_url" THEN url ELSE self[x]],
        [f EXCEPT !.pc = "wait",
                  !.put_locals = [url |-> url, json |-> json, parameters |-> parameters],
                  !.nreq = @ + 1,
                  !.req = [verb |-> "PUT", url |-> url, params |-> parameters,
                           json |-> json,
                           headers |-> ("Content-Type" :> "application/json"),
                           auth |-> self.auth_header]])

\* Line 38, the call: requests.put(url, params=..., json=..., headers=..., auth=...).
put_request(self, f, url, json, parameters) ==
    Env(self,
        [f EXCEPT !.pc = "wait",
                  !.put_locals = [url |-> url, json |-> json, parameters |-> parameters],
                  !.nreq = @ + 1,
                  !.req = [verb |-> "PUT", url |-> url, params |-> parameters,
                           json |-> json,
                           headers |-> ("Content-Type" :> "application/json"),
                           auth |-> self.auth_header]])

\* Mutant: every 2xx status counts as success.
put_response_Any2xx(self, f, response) ==
    Env(self,
        [f EXCEPT !.pc = "put_done",
                  !.put_outcome =
                      IF response.status_code < 200 \/ response.status_code > 299
                      THEN Raise("Exception",
                                 "ERROR: PUT " \o f.put_locals.url
                                 \o StrFormat(<<": ", "{}", ":", "{}">>,
                                              <<PyI(response.status_code),
                                                PyS(response.text)>>).s)
                      ELSE Return(response)])

\* Mutant: on success the response is returned wrapped in a result object.
put_response_Wrapping(self, f, response) ==
    Env(self,
        [f EXCEPT !.pc = "put_done",
                  !.put_outcome =
                      IF response.status_code # 200
                      THEN Raise("Exception",
                                 "ERROR: PUT " \o f.put_locals.url
                                 \o StrFormat(<<": ", "{}", ":", "{}">>,
                                              <<PyI(response.status_code),
                                                PyS(response.text)>>).s)
                      ELSE Return([ok |-> TRUE, response |-> response])])

\* Mutant: a server error is retried with a second request.
put_response_Retrying(self, f, response) ==
    IF response.status_code >= 500
    THEN Env(self, [f EXCEPT !.pc = "wait", !.nreq = @ + 1, !.reply = PyNone])
    ELSE Env(self,
             [f EXCEPT !.pc = "put_done",
                       !.put_outcome =
                           IF response.status_code # 200
                           THEN Raise("Exception",
                                      "ERROR: PUT " \o f.put_locals.url
                                      \o StrFormat(<<": ", "{}", ":", "{}">>,
                                                   <<PyI(response.status_code),
                                                     PyS(response.text)>>).s)
                           ELSE Return(response)])

\* Lines 38-41, once requests.put has returned `response`.
put_response(self, f, response) ==
    Env(self,
        [f EXCEPT !.pc = "put_done",
                  !.put_outcome =
                      IF response.status_code # 200
                      THEN Raise("Exception",
                                 "ERROR: PUT " \o f.put_locals.url
                                 \o StrFormat(<<": ", "{}", ":", "{}">>,
                                              <<PyI(response.status_code),
                                                PyS(response.text)>>).s)
                      ELSE Return(response)])

\* Line 38 when requests.put raises: put has no handler, the exception leaves it.
put_raised(self, f, exc) ==
    Env(self, [f EXCEPT !.pc = "put_done", !.put_outcome = Raise(exc, "")])

\* Mutant: the service url is computed once and cached on the client.
_upload_external_data_Cached(self, f, service_name, json_data, timestamp, message, partition) ==
    LET service_url == IF "service_url" \in DOMAIN self THEN self.service_url
                       ELSE PercentFormat(<<"%s", "/p/", "%s", "/", "%s", "/">>,
                                          <<self.url, self.project, PyS(service_name)>>).s
        parameters == ("t" :> timestamp) @@ ("message" :> message)
                      @@ ("partition" :> partition) @@ ("skip-session" :> "true")
        cached == [x \in DOMAIN self \cup {"service_url"} |->
                      IF x = "service_url" THEN service_url ELSE self[x]]
    IN  Env(cached,
            [f EXCEPT !.pc = "wait",
                      !.put_locals = [url |-> service_url, json |-> json_data,
                                      parameters |-> parameters],
                      !.nreq = @ + 1,
                      !.req = [verb |-> "PUT", url |-> service_url, params |-> parameters,
                               json |-> json_data,
                               headers |-> ("Content-Type" :> "application/json"),
                               auth |-> self.auth_header]])

\* Lines 124-131 up to the request made by put.
_upload_external_data(self, f, service_name, json_data, timestamp, message, partition) ==
    LET service_url == get_project_service_url(self, service_name)
        parameters == ("t" :> timestamp) @@ ("message" :> message)
                      @@ ("partition" :> partition) @@ ("skip-session" :> "true")
    IN  IF service_url.ok
        THEN put_request(self, f, service_url.s, json_data, parameters)
        ELSE Env(self, [f EXCEPT !.pc = "done",
                                 !.outcome = Raise(service_url.exc, "")])

\* Line 131: return self.put(...).
_upload_external_data_result(put_outcome) == put_outcome

\* Line 77.
upload_findings(self, f, findings, timestamp, message, partition) ==
    _upload_external_data(self, f, "add-external-findings", findings, timestamp,
                          message, partition)

\* Mutant: a failure is caught and replaced by a generic one.
upload_findings_result_Wrapped(upload_outcome) ==
    IF upload_outcome.kind = "raise" THEN Raise("Exception", "upload failed")
    ELSE upload_outcome

upload_findings_result(upload_outcome) == upload_outcome

\* Mutant: copied from upload_findings, the service name left as it was.
upload_metrics_CopyPaste(self, f, metrics, timestamp, message, partition) ==
    _upload_external_data(self, f, "add-external-findings", metrics, timestamp,
                          message, partition)

\* Line 106.
upload_metrics(self, f, metrics, timestamp, message, partition) ==
    _upload_external_data(self, f, "add-external-metrics", metrics, timestamp,
                          message, partition)

upload_metrics_result(upload_outcome) == upload_outcome

\* Unwinding the stack once put is over: put's outcome passes through the
\* return statements of the methods that called it.
Unwind(e) ==
    IF e.frame.pc # "put_done" THEN e
    ELSE Env(e.self,
             [e.frame EXCEPT
                 !.pc = "done",
                 !.outcome =
                     CASE e.frame.method = "put" -> e.frame.put_outcome
                       [] e.frame.method = "upload_findings" ->
                            upload_findings_result(
                                _upload_external_data_result(e.frame.put_outcome))
                       [] e.frame.method = "upload_metrics" ->
                            upload_metrics_result(
                                _upload_external_data_result(e.frame.put_outcome))])

(***************************************************************************)
(* requests.put, the remote service and the network                        *)
(***************************************************************************)
\* requests refuses a URL without a scheme (MissingSchema) before sending
\* anything.  TLC cannot look inside a string, so the scheme-less URLs the
\* client can build (from a base url of None) are listed.
HasScheme(url) ==
    url \notin {"None/p/" \o p \o "/" \o s \o "/" : p \in {"proj1", "None"}, s \in ServiceNames}

Responses(statuses, bodies) == [status_code : statuses, text : bodies]

(***************************************************************************)
(* read_json_from_file                                                     *)
(***************************************************************************)
TokP(c) == [t |-> "punct", v |-> c]
TokS(s) == [t |-> "str", v |-> s]
TokN(n) == [t |-> "num", v |-> n]

JInt(n) == [j |-> "int", v |-> n]
JStr(s) == [j |-> "str", v |-> s]
JDict(d) == [j |-> "dict", v |-> d]
JList(l) == [j |-> "list", v |-> l]

\* The files of the caller's disk, as the token sequences of their content.
Files ==
    ("/data/a.json" :> [readable |-> TRUE,
                        content |-> <<TokP("{"), TokS("a"), TokP(":"), TokN(1), TokP("}")>>])
    @@ ("/data/metrics.json" :>
          [readable |-> TRUE,
           content |-> <<TokP("["), TokP("{"), TokS("path"), TokP(":"), TokS("src/a.c"), TokP(","),
                         TokS("metrics"), TokP(":"), TokP("{"), TokS("loc"), TokP(":"), TokN(10),
                         TokP("}"), TokP("}"), TokP("]")>>])
    @@ ("/data/dup.json" :>
          [readable |-> TRUE,
           content |-> <<TokP("{"), TokS("a"), TokP(":"), TokN(1), TokP(","), TokS("a"), TokP(":"), TokN(2),
                         TokP("}")>>])
    @@ ("/data/truncated.json" :>
          [readable |-> TRUE, content |-> <<TokP("{"), TokS("a"), TokP(":"), TokN(1)>>])
    @@ ("/data/trailing.json" :>
          [readable |-> TRUE, content |-> <<TokP("["), TokP("]"), TokP("]")>>])
    @@ ("/data/empty.json" :> [readable |-> TRUE, content |-> <<>>])
    @@ ("/data/secret.json" :> [readable |-> FALSE, content |-> <<TokN(1)>>])

FilePaths == DOMAIN Files \cup {"/data/missing.json"}

ParseFail == [ok |-> FALSE]

Parsed(v, next) == [ok |-> TRUE, val |-> v, next |-> next]

IsP(toks, i, c) == i <= Len(toks) /\ toks[i].t = "punct" /\ toks[i].v = c

RECURSIVE ParseValue(_, _), ParseMembers(_, _, _), ParseElements(_, _, _)

\* A JSON value starting at token i.
ParseValue(toks, i) ==
    IF i > Len(toks) THEN ParseFail
    ELSE CASE toks[i].t = "num" -> Parsed(JInt(toks[i].v), i + 1)
           [] toks[i].t = "str" -> Parsed(JStr(toks[i].v), i + 1)
           [] IsP(toks, i, "{") ->
                IF IsP(toks, i + 1, "}") THEN Parsed(JDict(<<>>), i + 2)
                ELSE ParseMembers(toks, i + 1, <<>>)
           [] IsP(toks, i, "[") ->
                IF IsP(toks, i + 1, "]") THEN Parsed(JList(<<>>), i + 2)
                ELSE ParseElements(toks, i + 1, <<>>)
           [] OTHER -> ParseFail

\* "key": value pairs up to the closing brace; a repeated key keeps its last value.
ParseMembers(toks, i, acc) ==
    IF ~(i <= Len(toks) /\ toks[i].t = "str" /\ IsP(toks, i + 1, ":")) THEN ParseFail
    ELSE LET r == ParseValue(toks, i + 2)
         IN  IF ~r.ok THEN ParseFail
             ELSE LET acc2 == (toks[i].v :> r.val) @@ acc
                  IN  CASE IsP(toks, r.next, ",") -> ParseMembers(toks, r.next + 1, acc2)
                        [] IsP(toks, r.next, "}") -> Parsed(JDict(acc2), r.next + 1)
                        [] OTHER -> ParseFail

ParseElements(toks, i, acc) ==
    LET r == ParseValue(toks, i)
    IN  IF ~r.ok THEN ParseFail
        ELSE CASE IsP(toks, r.next, ",") ->
                    ParseElements(toks, r.next + 1, Append(acc, r.val))
               [] IsP(toks, r.next, "]") -> Parsed(JList(Append(acc, r.val)), r.next + 1)
               [] OTHER -> ParseFail

\* json.load: the whole content must be one JSON value.
json_load(content) ==
    LET r == ParseValue(content, 1)
    IN  IF r.ok /\ r.next = Len(content) + 1 THEN Return(r.val)
        ELSE Raise("JSONDecodeError", "")

\* open(file_path)
open(file_path) ==
    IF file_path \notin DOMAIN Files THEN Raise("IOError", "No such file or directory")
    ELSE IF ~Files[file_path].readable THEN Raise("IOError", "Permission denied")
    ELSE Return(Files[file_path].content)

\* Mutant: errors are swallowed and None is returned.
read_json_from_file_Swallowing(self, f, file_path) ==
    LET json_file == open(file_path)
        loaded == IF json_file.kind = "raise" THEN json_file
                  ELSE json_load(json_file.value)
    IN  Env(self,
            [f EXCEPT !.pc = "done",
                      !.outcome = IF loaded.kind = "raise" THEN Return(PyNone)
                                  ELSE loaded])

\* Lines 154-156: nothing is caught, so an error of open or json.load leaves
\* the method as it is.
read_json_from_file(self, f, file_path) ==
    LET json_file == open(file_path)
    IN  Env(self,
            [f EXCEPT !.pc = "done",
                      !.outcome = IF json_file.kind = "raise" THEN json_file
                                  ELSE json_load(json_file.value)])

(***************************************************************************)
(* Actions                                                                 *)
(***************************************************************************)
\* The caller's thread in the single-threaded specification: the first one.
MainThread == CHOOSE c \in Threads : \A d \in Threads : c <= d

Entered(f, method, args) == [f EXCEPT !.method = method, !.args = args]

Idle(c) == client.state = "ok" /\ frames[c].pc = "idle"

Apply(c, e) ==
    /\ client' = [client EXCEPT !.self = e.self]
    /\ frames' = [frames EXCEPT ![c] = e.frame]
    /\ UNCHANGED <<given, seen>>

\* TeamscaleClient(...)
Construct(kwargs) ==
    /\ client.state = "none"
    /\ client' = __init__(kwargs)
    /\ given' = kwargs
    /\ UNCHANGED <<frames, seen>>

\* client.upload_findings(findings, timestamp, message, partition), up to the
\* moment the request is on its way.
CallUploadFindings(c, findings, timestamp, message, partition) ==
    /\ Idle(c)
    /\ Apply(c, upload_findings(client.self,
                                Entered(frames[c], "upload_findings",
                                        [data |-> findings, timestamp |-> timestamp,
                                         message |-> message, partition |-> partition]),
                                findings, timestamp, message, partition))

\* client.upload_metrics(metrics, timestamp, message, partition)
CallUploadMetrics(c, metrics, timestamp, message, partition) ==
    /\ Idle(c)
    /\ Apply(c, upload_metrics(client.self,
                               Entered(frames[c], "upload_metrics",
                                       [data |-> metrics, timestamp |-> timestamp,
                                        message |-> message, partition |-> partition]),
                               metrics, timestamp, message, partition))

\* client.put(url, json, parameters)
CallPut(c, url, json, parameters) ==
    /\ Idle(c)
    /\ Apply(c, put_request(client.self,
                            Entered(frames[c], "put",
                                    [url |-> url, json |-> json,
                                     parameters |-> parameters]),
                            url, json, parameters))

\* requests.put returns a response; put checks it and the call ends.
RequestsPutReturns(c, response) ==
    /\ client.state = "ok"
    /\ frames[c].pc = "wait"
    /\ HasScheme(frames[c].req.url)
    /\ Apply(c, Unwind(put_response(client.self,
                                     [frames[c] EXCEPT !.reply = Return(response)],
                                     response)))

\* requests.put raises; the call ends with that exception.
RequestsPutRaises(c, exc) ==
    /\ client.state = "ok"
    /\ frames[c].pc = "wait"
    /\ exc \in (IF HasScheme(frames[c].req.url) THEN TransportErrors
                ELSE {"MissingSchema"})
    /\ Apply(c, Unwind(put_raised(client.self,
                                   [frames[c] EXCEPT !.reply = Raise(exc, "")],
                                   exc)))

\* client.get_project_service_url(service_name)
CallGetProjectServiceUrl(c, service_name) ==
    /\ Idle(c)
    /\ LET r == get_project_service_url(client.self, service_name)
       IN  Apply(c, Env(client.self,
                        [Entered(frames[c], "get_project_service_url",
                                 [service_name |-> service_name])
                            EXCEPT !.pc = "done",
                                   !.outcome = IF r.ok THEN Return(r.s)
                                               ELSE Raise(r.exc, "")]))

\* client.read_json_from_file(file_path)
CallReadJsonFromFile(c, file_path) ==
    /\ Idle(c)
    /\ Apply(c, read_json_from_file(client.self,
                                    Entered(frames[c], "read_json_from_file",
                                            [file_path |-> file_path]),
                                    file_path))

\* The caller has the outcome and goes on to its next statement.
CallerContinues(c) ==
    /\ client.state = "ok"
    /\ frames[c].pc = "done"
    /\ frames' = [frames EXCEPT ![c] = IdleFrame]
    /\ seen' = seen \cup {frames[c].outcome.kind}
    /\ UNCHANGED <<client, given>>

(***************************************************************************)
(* Spec: one caller thread, every method, every constructor call           *)
(***************************************************************************)
Init ==
    /\ client = [state |-> "none"]
    /\ given = <<>>
    /\ frames = [c \in Threads |-> IdleFrame]
    /\ seen = {}

Next ==
    \/ \E kwargs \in CtorCalls : Construct(kwargs)
    \/ \E d \in Payloads, t \in Timestamps, m \in Messages, p \in Partitions :
          CallUploadFindings(MainThread, d, t, m, p)
    \/ \E d \in Payloads, t \in Timestamps, m \in Messages, p \in Partitions :
          CallUploadMetrics(MainThread, d, t, m, p)
    \/ \E u \in PutUrls, d \in Payloads, q \in PutParameters :
          CallPut(MainThread, u, d, q)
    \/ \E r \in Responses(Statuses, Bodies) : RequestsPutReturns(MainThread, r)
    \/ \E x \in TransportErrors \cup {"MissingSchema"} : RequestsPutRaises(MainThread, x)
    \/ \E s \in ServiceNames : CallGetProjectServiceUrl(MainThread, s)
    \/ \E f \in FilePaths : CallReadJsonFromFile(MainThread, f)
    \/ CallerContinues(MainThread)

Spec == Init /\ [][Next]_vars

(***************************************************************************)
(* SpecConc: a constructed client shared by concurrent uploads             *)
(***************************************************************************)
ConcCtorCall ==
    [url |-> PyS("http://ts.example.com"), username |-> PyS("admin"),
     password |-> PyS("secret"), project |-> PyS("proj1")]

InitConc ==
    /\ client = __init__(ConcCtorCall)
    /\ given = ConcCtorCall
    /\ frames = [c \in Threads |-> IdleFrame]
    /\ seen = {}

NextConc ==
    \E c \in Threads :
        \/ \E d \in Payloads, t \in ConcTimestamps :
              CallUploadFindings(c, d, t, "nightly upload", "lint")
        \/ \E d \in Payloads, t \in ConcTimestamps :
              CallUploadMetrics(c, d, t, "nightly upload", "lint")
        \/ \E r \in Responses(ConcStatuses, ConcBodies) : RequestsPutReturns(c, r)
        \/ RequestsPutRaises(c, "ConnectionError")
        \/ CallerContinues(c)

SpecConc == InitConc /\ [][NextConc]_vars

(***************************************************************************)
(* Claims                                                                  *)
(***************************************************************************)
\* What the claims expect, written out independently of the formatting code.
TextOf(v) == IF v = PyNone THEN "None" ELSE v.s

ExpectedServiceUrl(service) ==
    TextOf(given.url) \o "/p/" \o TextOf(given.project) \o "/" \o service \o "/"

StatusText(status) ==
    CASE status = 200 -> "200" [] status = 201 -> "201" [] status = 202 -> "202"
      [] status = 204 -> "204" [] status = 401 -> "401" [] status = 403 -> "403"
      [] status = 404 -> "404" [] status = 500 -> "500" [] status = 503 -> "503"

UploadMethods == {"upload_findings", "upload_metrics"}

PutMethods == UploadMethods \cup {"put"}

ServiceOf(method) ==
    IF method = "upload_findings" THEN "add-external-findings" ELSE "add-external-metrics"

\* The url argument of the put made by the call in frame f.
PutUrlOf(f) ==
    IF f.method = "put" THEN f.args.url ELSE ExpectedServiceUrl(ServiceOf(f.method))

AllGiven == client.state = "ok" /\ \A a \in ArgNames : given[a] # PyNone

Answered(f) == f.reply # PyNone /\ f.reply.kind = "return"

\* C1: an upload issues a PUT to the project's service URL of its service, with
\* exactly the query parameters t, message, partition and skip-session="true"
\* and with the caller's data as body.
C1_UploadRequest ==
    \A c \in Threads :
        LET f == frames[c]
        IN  f.method \in UploadMethods =>
              /\ f.req # PyNone
              /\ f.req.verb = "PUT"
              /\ f.req.url = ExpectedServiceUrl(ServiceOf(f.method))
              /\ AllGiven /\ f.method = "upload_findings" =>
                    f.req.url = "http://ts.example.com/p/proj1/add-external-findings/"
              /\ AllGiven /\ f.method = "upload_metrics" =>
                    f.req.url = "http://ts.example.com/p/proj1/add-external-metrics/"
              /\ DOMAIN f.req.params = {"t", "message", "partition", "skip-session"}
              /\ f.req.params["t"] = f.args.timestamp
              /\ f.req.params["message"] = f.args.message
              /\ f.req.params["partition"] = f.args.partition
              /\ f.req.params["skip-session"] = "true"
              /\ f.req.json = f.args.data

C1_Witness ==
    /\ AllGiven
    /\ frames[MainThread].method = "upload_metrics"
    /\ frames[MainThread].pc = "done"
    /\ frames[MainThread].args.data = MetricsData
    /\ frames[MainThread].args.timestamp = 1444000000
    /\ frames[MainThread].req.url = "http://ts.example.com/p/proj1/add-external-metrics/"

\* C2: on every status other than 200, put fails with the message
\* "ERROR: PUT <url>: <status>:<body>".
C2_NonOkRaises ==
    \A c \in Threads :
        LET f == frames[c]
        IN  f.method \in PutMethods /\ Answered(f) /\ f.reply.value.status_code # 200 =>
              /\ f.put_outcome.kind = "raise"
              /\ f.put_outcome.msg = "ERROR: PUT " \o PutUrlOf(f) \o ": "
                                     \o StatusText(f.reply.value.status_code) \o ":"
                                     \o f.reply.value.text
              /\ f.method = "put" /\ f.args.url = "http://other.example.com/x"
                 /\ f.reply.value = [status_code |-> 404, text |-> "not found"] =>
                    f.put_outcome.msg = "ERROR: PUT http://other.example.com/x: 404:not found"

C2_Witness ==
    /\ frames[MainThread].method = "put"
    /\ Answered(frames[MainThread])
    /\ frames[MainThread].reply.value = [status_code |-> 201, text |-> ""]
    /\ frames[MainThread].put_outcome.kind = "raise"

\* C3: on status 200, put raises nothing and returns the response it got.
C3_OkReturnsResponse ==
    \A c \in Threads :
        LET f == frames[c]
        IN  f.method \in PutMethods /\ Answered(f) /\ f.reply.value.status_code = 200 =>
              f.put_outcome = [kind |-> "return", value |-> f.reply.value]

C3_Witness ==
    /\ frames[MainThread].method = "put"
    /\ Answered(frames[MainThread])
    /\ frames[MainThread].reply.value = [status_code |-> 200, text |-> "not found"]
    /\ frames[MainThread].put_outcome.kind = "return"

\* C4: get_project_service_url returns url + "/p/" + project + "/" + service_name
\* + "/", without any request and without failing.
C4_ServiceUrl ==
    \A c \in Threads :
        LET f == frames[c]
        IN  f.method = "get_project_service_url" =>
              /\ f.pc = "done"
              /\ f.outcome.kind = "return"
              /\ f.outcome.value = ExpectedServiceUrl(f.args.service_name)
              /\ AllGiven /\ f.args.service_name = "add-external-metrics" =>
                    f.outcome.value = "http://ts.example.com/p/proj1/add-external-metrics/"
              /\ f.nreq = 0
              /\ f.req = PyNone

C4_Witness ==
    /\ AllGiven
    /\ frames[MainThread].method = "get_project_service_url"
    /\ frames[MainThread].args.service_name = "add-external-metrics"
    /\ frames[MainThread].outcome.kind = "return"

\* C5: a call of put or of an upload makes exactly one request; once
\* requests.put has answered or raised, the call is over, whatever the status.
C5_OneRequest ==
    \A c \in Threads :
        LET f == frames[c]
        IN  f.method \in PutMethods =>
              /\ f.nreq = 1
              /\ f.pc \in {"wait", "done"}
              /\ f.pc = "wait" <=> f.reply = PyNone
              /\ f.pc = "done" => f.outcome # PyNone

C5_Witness ==
    /\ frames[MainThread].method = "upload_findings"
    /\ Answered(frames[MainThread])
    /\ frames[MainThread].reply.value.status_code = 500
    /\ frames[MainThread].pc = "done"
    /\ frames[MainThread].outcome.kind = "raise"

ConfigAsGiven ==
    client.self = [url |-> given.url,
                   username |-> given.username,
                   auth_header |-> [username |-> given.username,
                                    password |-> given.password],
                   project |-> given.project]

\* C6: whatever calls were made and however they ended, the client's
\* configuration is the one given at construction.
C6_ConfigImmutable == client.state = "ok" => ConfigAsGiven

C6_Witness ==
    /\ client.state = "ok"
    /\ seen = {"return", "raise"}
    /\ frames[MainThread].method = "upload_metrics"
    /\ frames[MainThread].pc = "done"
    /\ frames[MainThread].outcome.kind = "raise"

Absent(a) == a \notin DOMAIN given \/ given[a] = PyNone

\* C7 as stated: construction fails when a configuration value is absent, and
\* no client with an absent value issues a request.
C7_Original ==
    /\ client.state # "none" /\ (\E a \in ArgNames : Absent(a)) => client.state = "failed"
    /\ \A c \in Threads : frames[c].req # PyNone => \A a \in ArgNames : ~Absent(a)

\* C7, amended: construction fails (TypeError from the call itself) exactly when
\* an argument is omitted; a value passed as None is stored unchecked.
C7_OnlyOmissionFails ==
    client.state # "none" =>
        /\ client.state = "failed" <=> ArgNames \ DOMAIN given # {}
        /\ client.state = "failed" =>
              /\ client.exc = "TypeError"
              /\ \A c \in Threads : frames[c] = IdleFrame
        /\ client.state = "ok" => ConfigAsGiven

C7_Witness ==
    /\ client.state = "ok"
    /\ given.project = PyNone
    /\ given.username = PyNone
    /\ frames[MainThread].method = "upload_findings"
    /\ Answered(frames[MainThread])
    /\ frames[MainThread].req.url = "http://ts.example.com/p/None/add-external-findings/"

\* The outcome a call of put or of an upload must have, from its own reply.
ExpectedOutcome(f) ==
    IF f.reply.kind = "raise" THEN [kind |-> "raise", exc |-> f.reply.exc, msg |-> ""]
    ELSE IF f.reply.value.status_code = 200
    THEN [kind |-> "return", value |-> f.reply.value]
    ELSE [kind |-> "raise", exc |-> "Exception",
          msg |-> "ERROR: PUT " \o PutUrlOf(f) \o ": "
                  \o StatusText(f.reply.value.status_code) \o ":" \o f.reply.value.text]

\* C8: with uploads running concurrently on one client, each request is built
\* from its own call's arguments, each outcome follows from its own reply, and
\* the shared client is not written.
C8_IndependentCalls ==
    /\ ConfigAsGiven
    /\ \A c \in Threads :
          LET f == frames[c]
          IN  f.method \in UploadMethods =>
                /\ f.req.url = ExpectedServiceUrl(ServiceOf(f.method))
                /\ f.req.params = ("t" :> f.args.timestamp) @@ ("message" :> f.args.message)
                                  @@ ("partition" :> f.args.partition)
                                  @@ ("skip-session" :> "true")
                /\ f.req.json = f.args.data
                /\ f.req.auth = [username |-> given.username, password |-> given.password]
                /\ f.pc = "done" => f.outcome = ExpectedOutcome(f)

C8_Witness ==
    /\ frames[1].method = "upload_findings"
    /\ frames[1].args.data = FindingsData
    /\ frames[1].args.timestamp = 0
    /\ frames[1].pc = "wait"
    /\ frames[2].method = "upload_metrics"
    /\ frames[2].args.data = MetricsData
    /\ frames[2].args.timestamp = 1444000000
    /\ frames[2].pc = "done"
    /\ frames[2].outcome.kind = "raise"
    /\ frames[2].reply = [kind |-> "return",
                          value |-> [status_code |-> 404, text |-> "not found"]]

JsonError == [kind |-> "raise", exc |-> "JSONDecodeError", msg |-> ""]

ExpectedRead(file_path) ==
    CASE file_path = "/data/a.json" ->
            [kind |-> "return",
             value |-> [j |-> "dict", v |-> [a |-> [j |-> "int", v |-> 1]]]]
      [] file_path = "/data/metrics.json" ->
            [kind |-> "return",
             value |-> [j |-> "list",
                        v |-> <<[j |-> "dict",
                                 v |-> [path |-> [j |-> "str", v |-> "src/a.c"],
                                        metrics |-> [j |-> "dict",
                                                     v |-> [loc |-> [j |-> "int",
                                                                     v |-> 10]]]]]>>]]
      [] file_path = "/data/dup.json" ->
            [kind |-> "return",
             value |-> [j |-> "dict", v |-> [a |-> [j |-> "int", v |-> 2]]]]
      [] file_path \in {"/data/truncated.json", "/data/trailing.json", "/data/empty.json"} ->
            JsonError
      [] file_path = "/data/secret.json" ->
            [kind |-> "raise", exc |-> "IOError", msg |-> "Permission denied"]
      [] file_path = "/data/missing.json" ->
            [kind |-> "raise", exc |-> "IOError", msg |-> "No such file or directory"]

\* C9: read_json_from_file returns the parsed content of a file holding valid
\* JSON, and otherwise fails with the error of open or of the JSON parser.
C9_ReadJson ==
    \A c \in Threads :
        LET f == frames[c]
        IN  f.method = "read_json_from_file" =>
              /\ f.pc = "done"
              /\ f.outcome = ExpectedRead(f.args.file_path)

C9_Witness ==
    /\ frames[MainThread].method = "read_json_from_file"
    /\ frames[MainThread].args.file_path = "/data/truncated.json"
    /\ frames[MainThread].outcome.kind = "raise"
    /\ "return" \in seen

\* C10: an upload ends exactly as its one put ended: the same response
\* returned, or the same error raised.
C10_UploadOutcomeIsPutOutcome ==
    \A c \in Threads :
        LET f == frames[c]
        IN  f.method \in UploadMethods /\ f.pc = "done" =>
              /\ f.nreq = 1
              /\ f.outcome = f.put_outcome
              /\ f.outcome = ExpectedOutcome(f)

C10_Witness ==
    /\ frames[MainThread].method = "upload_findings"
    /\ frames[MainThread].pc = "done"
    /\ frames[MainThread].reply = [kind |-> "raise", exc |-> "ConnectionError", msg |-> ""]
    /\ frames[MainThread].outcome = frames[MainThread].reply

====
